---- MODULE Spec2Model ----
(***************************************************************************)
(* The three tutorial scripts of the repository as one state machine:      *)
(*   01_simple_pipeline.py   users + posts, write_disposition "replace"    *)
(*   02_incremental_load.py  posts_incremental (merge, incremental cursor) *)
(*                           and users_with_timestamp (merge)              *)
(*   bigquery_pipeline.py    setup check, users + posts (replace), the     *)
(*                           try/except around the pipeline run            *)
(* A behaviour invokes one script again and again against an API whose     *)
(* contents change between runs.  What survives an invocation is what the  *)
(* scripts keep on disk: the destination tables and the incremental state. *)
(***************************************************************************)
EXTENDS Integers, Sequences, FiniteSets, Bags, TLC

\* ---------------------------------------------------------------- bounds
\* Record ids offered by the API are 1..MaxId; the posts endpoint lists at
\* most MaxPosts records and the users endpoint at most MaxUsers (any order,
\* repeats allowed).
MaxId == 2
MaxPosts == 2
MaxUsers == 1

\* ------------------------------------------------------- program constants
\* dlt.sources.incremental("post_id", initial_value=0)
initial_value == 0

\* BIGQUERY_PROJECT_ID's default, which check_bigquery_setup rejects
PLACEHOLDER_PROJECT_ID == "your-project-id"

\* BIGQUERY_DATASET's default
DEFAULT_DATASET == "api_ingestion"

Scripts == {"simple", "incremental", "users_with_timestamp", "bigquery"}
TableNames == {"users", "posts", "posts_incremental", "users_with_timestamp"}

\* HTTP statuses a GET can come back with: one of each class that reaches the
\* caller (a 3xx without a Location header is not followed by requests).
Statuses == {200, 300, 404, 500}

\* Contents of the non-key fields of a record (title/body, name/email/...).
Bodies == {"a", "b"}
Names == {"u"}

VARIABLES
    script,             \* the script being executed
    dlt_installed,      \* whether "import dlt" succeeds
    credentials_exist,  \* Path(BIGQUERY_CREDENTIALS).exists()
    BIGQUERY_PROJECT_ID,
    BIGQUERY_DATASET,
    source,             \* the posts the API holds now (02_incremental_load.py)
    pc,                 \* position of the script's (only) thread
    run_no,             \* which pipeline.run of this invocation (RUN 1 / RUN 2)
    gen,                \* per resource of the run: state of its generator
    inflight,           \* resources whose requests.get has not returned yet
    status,             \* per resource: status code of the response it holds (0: none)
    fetched,            \* per resource: response.json()
    yielded,            \* per resource: rows yielded in this run, in order
    start_value,        \* last_post_id.last_value as the resource read it
    last_value,         \* the stored incremental state (high-water mark)
    tables,             \* destination: table name -> bag of rows
    query_rows,         \* results of the COUNT/MAX queries, latest last
    printed,            \* messages printed in this invocation
    exc,                \* the exception raised in this invocation, or "none"
    source_changed,     \* the API's posts are not known to be what the last fetch saw
    same_as_prev,       \* this run's fetch returned what the previous one did
    resume_mark,        \* last_value as the last successful run left it
    resume_table,       \* posts_incremental as the last successful run left it
    prev_failed,        \* the incremental pipeline's last run failed
    dropped_rows        \* this run's load removed a row the table held before it

vars == <<script, dlt_installed, credentials_exist, BIGQUERY_PROJECT_ID,
          BIGQUERY_DATASET, source,
          pc, run_no, gen, inflight, status, fetched, yielded, start_value,
          last_value, tables, query_rows, printed, exc, source_changed,
          same_as_prev, resume_mark, resume_table, prev_failed, dropped_rows>>

\* ------------------------------------------------------------ helpers
Range(s) == {s[i] : i \in DOMAIN s}

Max(S) == CHOOSE m \in S : \A x \in S : x <= m

SeqToBag(s) == [x \in Range(s) |-> Cardinality({i \in DOMAIN s : s[i] = x})]

RECURSIVE SeqsUpTo(_, _)
SeqsUpTo(S, n) ==
    IF n = 0 THEN {<<>>}
    ELSE LET shorter == SeqsUpTo(S, n - 1)
         IN  shorter \cup {Append(s, x) : s \in {t \in shorter : Len(t) = n - 1}, x \in S}

RemoveAt(s, i) == [j \in 1..(Len(s) - 1) |-> IF j < i THEN s[j] ELSE s[j + 1]]

\* ------------------------------------------------------------- the API
\* JSON records of the two endpoints, reduced to the id and one content field.
PostRecords == [id : 1..MaxId, body : Bodies]
UserRecords == [id : 1..MaxId, name : Names]

\* The JSON lists an endpoint may answer with.  Post bodies vary where runs
\* are compared with each other (02_incremental_load.py); the scripts that
\* replace their tables on every run are given one body.
PostLists == SeqsUpTo([id : 1..MaxId, body : {"a"}], MaxPosts)
UserLists == SeqsUpTo(UserRecords, MaxUsers)

\* ------------------------------------------------------- resources
\* The resources each script hands to pipeline.run.
Resources(s) ==
    CASE s = "simple"               -> {"users", "posts"}
      [] s = "bigquery"             -> {"users", "posts"}
      [] s = "incremental"          -> {"posts_incremental"}
      [] s = "users_with_timestamp" -> {"users_with_timestamp"}

\* The URL each resource GETs.
Endpoint(r) == IF r \in {"users", "users_with_timestamp"} THEN "users" ELSE "posts"


\* Every resource appending, as if no write_disposition had been given.
WriteDispositionAppend(r) == "append"

\* write_disposition of each resource (its decorator, or dlt.resource(...)).
WriteDisposition(r) ==
    IF r \in {"posts_incremental", "users_with_timestamp"} THEN "merge" ELSE "replace"

\* The transformer: the flat row a resource yields for one JSON record.
Row(r, rec) ==
    IF Endpoint(r) = "posts"
    THEN [post_id |-> rec.id, body |-> rec.body]
    ELSE [user_id |-> rec.id, name |-> rec.name]

\* primary_key="post_id" / primary_key="user_id": the key column's value.
PrimaryKey(row) == IF "post_id" \in DOMAIN row THEN row.post_id ELSE row.user_id

\* A status check that lets client errors through.
RaisesForStatusServerOnly(code) == 500 <= code /\ code < 600

\* response.raise_for_status(): HTTPError for the 4xx and 5xx classes only.
RaisesForStatus(code) == 400 <= code /\ code < 600

\* The filter with >= for >.
NewPostsGE(posts, last) == SelectSeq(posts, LAMBDA p : p.id >= last)

\* new_posts = [p for p in posts if p['id'] > last_post_id.last_value]
NewPosts(posts, last) == SelectSeq(posts, LAMBDA p : p.id > last)

\* The records a resource turns into rows: load_posts_incremental keeps the
\* new posts, every other resource keeps the whole response.
Selected(r, records, last) ==
    IF r = "posts_incremental" THEN NewPosts(records, last) ELSE records

\* A for-loop that walks the list from its end.
YieldsReversed(r, records, last) ==
    LET kept == Selected(r, records, last)
    IN  [i \in DOMAIN kept |-> Row(r, kept[Len(kept) + 1 - i])]

\* The rows a resource's for-loop yields, in order.
Yields(r, records, last) ==
    LET kept == Selected(r, records, last)
    IN  [i \in DOMAIN kept |-> Row(r, kept[i])]

\* A cursor that takes the last row's value instead of the maximum.
AdvanceLast(last, rows) == IF rows = <<>> THEN last ELSE PrimaryKey(rows[Len(rows)])

\* A cursor that falls back to its initial value when a run yields nothing.
AdvanceReset(last, rows) ==
    IF rows = <<>> THEN initial_value ELSE Max({last} \cup {PrimaryKey(rows[i]) : i \in DOMAIN rows})

\* A cursor that is never stored.
AdvanceStale(last, rows) == last

\* The incremental cursor after a run: the maximum of the tracked field over
\* the stored value and the rows that went through ("max post_id").
Advance(last, rows) == Max({last} \cup {PrimaryKey(rows[i]) : i \in DOMAIN rows})

\* --------------------------------------------------- write dispositions
Keys(rows) == {PrimaryKey(rows[i]) : i \in DOMAIN rows}

\* Merge deduplicates the incoming rows on the primary key; which of several
\* rows with one key survives is not fixed, so every choice is a result.
Deduplicated(rows) ==
    {SetToBag({f[k] : k \in Keys(rows)}) :
        f \in {g \in [Keys(rows) -> Range(rows)] : \A k \in Keys(rows) : PrimaryKey(g[k]) = k}}

\* The rows of a table whose key is not among ks.
Without(table, ks) ==
    [x \in {y \in DOMAIN table : PrimaryKey(y) \notin ks} |-> table[x]]

\* "REPLACE: drops existing table and creates new one"
Replace(table, rows) == {SeqToBag(rows)}

\* "APPEND: adds new rows to existing table"
AppendRows(table, rows) == {table (+) SeqToBag(rows)}

\* A merge that does not deduplicate what comes in.
MergeNoDedup(table, rows) == {Without(table, Keys(rows)) (+) SeqToBag(rows)}

\* "MERGE: updates existing rows and adds new ones" (by primary key)
Merge(table, rows) == {Without(table, Keys(rows)) (+) d : d \in Deduplicated(rows)}

\* The tables a load of rows into table can leave, under a disposition.
Written(disposition, table, rows) ==
    CASE disposition = "replace" -> Replace(table, rows)
      [] disposition = "append"  -> AppendRows(table, rows)
      [] disposition = "merge"   -> Merge(table, rows)

\* SELECT COUNT(*) as count, MAX(post_id) as max_id FROM posts_incremental
\* (max_id is the empty set for SQL's NULL on an empty table).
CountAndMax(table) ==
    [count  |-> BagCardinality(table),
     max_id |-> IF DOMAIN table = {} THEN {}
                ELSE {Max({PrimaryKey(x) : x \in DOMAIN table})}]

\* A setup check that looks at the credentials file only.
CheckBigQuerySetupCredentialsOnly(creds, project) == creds

\* check_bigquery_setup(): both checks are made, either failing fails it.
CheckBigQuerySetup(creds, project) == creds /\ project # PLACEHOLDER_PROJECT_ID

\* What check_bigquery_setup() prints: the banner, one line for each of its
\* two checks whatever the other gave, the dataset name, and SETUP REQUIRED
\* when checks_passed is False.
SetupCheckPrints(creds, project, dataset) ==
    {"BIGQUERY SETUP CHECK"}
        \cup (IF creds THEN {"Found"} ELSE {"Not found"})
        \cup (IF project # PLACEHOLDER_PROJECT_ID
              THEN {"Project ID"} ELSE {"Project ID not configured"})
        \cup {"Dataset name: " \o dataset}
        \cup (IF CheckBigQuerySetup(creds, project) THEN {} ELSE {"SETUP REQUIRED"})



\* ------------------------------------------------------------ the state
NoRun == [t \in TableNames |-> "none"]
NoStatus == [t \in TableNames |-> 0]
Nothing == [t \in TableNames |-> <<>>]

Init ==
    /\ script \in Scripts
    /\ dlt_installed \in BOOLEAN
    /\ credentials_exist \in (IF script = "bigquery" THEN BOOLEAN ELSE {FALSE})
    /\ BIGQUERY_PROJECT_ID \in
           (IF script = "bigquery" THEN {PLACEHOLDER_PROJECT_ID, "my-project"}
            ELSE {PLACEHOLDER_PROJECT_ID})
    /\ BIGQUERY_DATASET \in
           (IF script = "bigquery" THEN {DEFAULT_DATASET, "my_dataset"}
            ELSE {DEFAULT_DATASET})
    /\ source = <<>>
    /\ pc = "import"
    /\ run_no = 0
    /\ gen = NoRun
    /\ inflight = {}
    /\ status = NoStatus
    /\ fetched = Nothing
    /\ yielded = Nothing
    /\ start_value = initial_value
    /\ last_value = initial_value
    /\ tables = [t \in TableNames |-> EmptyBag]
    /\ query_rows = <<>>
    /\ printed = {}
    /\ exc = "none"
    /\ source_changed = TRUE
    /\ same_as_prev = FALSE
    /\ resume_mark = initial_value
    /\ resume_table = EmptyBag
    /\ prev_failed = FALSE
    /\ dropped_rows = FALSE

config == <<script, dlt_installed, credentials_exist, BIGQUERY_PROJECT_ID,
            BIGQUERY_DATASET>>
history == <<source_changed, same_as_prev, resume_mark, resume_table, prev_failed,
             dropped_rows>>

\* The single thread is free when no generator is between its requests.get
\* and its first yield (the call blocks, the statements after it follow).
ThreadFree == \A r \in TableNames : gen[r] \notin {"waiting", "responded"}

\* A load that starts as soon as one generator is done.
ExtractedAny == \E r \in Resources(script) : gen[r] = "exhausted"

\* Every generator of the run has been read to its end.
Extracted == \A r \in Resources(script) : gen[r] = "exhausted"

\* No generator of the run has been started yet.
Unstarted == \A r \in Resources(script) : gen[r] = "created"

\* No script catching what pipeline.run raises.
HandlerNone(s) == "crashed"

\* Where an exception that leaves pipeline.run lands: bigquery's main()
\* catches Exception, the other scripts catch ImportError only.
Handler(s) == IF s = "bigquery" THEN "except" ELSE "crashed"

\* The JSON list a response to resource r can carry.
Answers(r) ==
    CASE r = "posts_incremental" -> {source}
      [] Endpoint(r) = "posts"   -> PostLists
      [] OTHER                   -> UserLists

\* -------------------------------------------------------------- actions
\* The module-level "import dlt" (and, in two scripts, the import of dlt's
\* requests helper): it runs when the file is loaded, before the try/except
\* ImportError of the __main__ block at the end of the file is reached, so
\* an ImportError raised here has no handler.
ImportDlt ==
    /\ pc = "import"
    /\ IF dlt_installed
       THEN pc' = "main" /\ exc' = exc
       ELSE pc' = "crashed" /\ exc' = "ImportError"
    /\ UNCHANGED <<config, source, run_no, gen, inflight, status, fetched, yielded,
                   start_value, last_value, tables, query_rows, printed, history>>

\* pipeline.run(source) is called: the run's generators exist, none has run,
\* and the incremental is bound to the stored last_value.
BeginRun ==
    /\ pc' = "run"
    /\ run_no' = run_no + 1
    /\ gen' = [t \in TableNames |-> IF t \in Resources(script) THEN "created" ELSE "none"]
    /\ status' = NoStatus
    /\ fetched' = Nothing
    /\ yielded' = Nothing
    /\ start_value' = last_value
    /\ same_as_prev' = FALSE
    /\ dropped_rows' = FALSE
    /\ UNCHANGED <<config, source, inflight, last_value, tables, query_rows, exc,
                   source_changed, resume_mark, resume_table, prev_failed>>

\* main() of 01_simple_pipeline.py and 02_incremental_load.py, and a run of
\* load_users_with_timestamp: print, then run the pipeline.
Main ==
    /\ pc = "main"
    /\ script # "bigquery"
    /\ BeginRun
    /\ UNCHANGED printed

\* A main() that goes on to the pipeline run whatever the setup check gave.
MainBigQueryIgnoringCheck ==
    /\ pc = "main"
    /\ script = "bigquery"
    /\ BeginRun
    /\ printed' = printed \cup SetupCheckPrints(credentials_exist, BIGQUERY_PROJECT_ID,
                                                BIGQUERY_DATASET)

\* main() of bigquery_pipeline.py up to the try: the setup check decides.
MainBigQuery ==
    /\ pc = "main"
    /\ script = "bigquery"
    /\ IF CheckBigQuerySetup(credentials_exist, BIGQUERY_PROJECT_ID)
       THEN /\ BeginRun
            /\ printed' = printed \cup SetupCheckPrints(credentials_exist,
                                                        BIGQUERY_PROJECT_ID,
                                                        BIGQUERY_DATASET)
       ELSE /\ pc' = "done"
            /\ printed' = printed
                             \cup SetupCheckPrints(credentials_exist, BIGQUERY_PROJECT_ID,
                                                   BIGQUERY_DATASET)
                             \cup {"Please complete setup steps"}
            /\ UNCHANGED <<config, source, run_no, gen, inflight, status, fetched,
                           yielded, start_value, last_value, tables, query_rows,
                           exc, history>>

\* The API gains a post (between runs of the incremental pipeline).
SourceAppend(rec) ==
    /\ pc = "run"
    /\ Unstarted
    /\ script = "incremental"
    /\ Len(source) < MaxPosts
    /\ source' = Append(source, rec)
    /\ source_changed' = TRUE
    /\ UNCHANGED <<config, pc, run_no, gen, inflight, status, fetched, yielded,
                   start_value, last_value, tables, query_rows, printed, exc,
                   same_as_prev, resume_mark, resume_table, prev_failed,
                   dropped_rows>>

\* The API loses a post (between runs of the incremental pipeline).
SourceRemove(i) ==
    /\ pc = "run"
    /\ Unstarted
    /\ script = "incremental"
    /\ i \in DOMAIN source
    /\ source' = RemoveAt(source, i)
    /\ source_changed' = TRUE
    /\ UNCHANGED <<config, pc, run_no, gen, inflight, status, fetched, yielded,
                   start_value, last_value, tables, query_rows, printed, exc,
                   same_as_prev, resume_mark, resume_table, prev_failed,
                   dropped_rows>>

\* A resource's generator starts: it prints and calls requests.get, which
\* blocks the thread until the response is there.
Request(r) ==
    /\ pc = "run"
    /\ gen[r] = "created"
    /\ ThreadFree
    /\ gen' = [gen EXCEPT ![r] = "waiting"]
    /\ inflight' = inflight \cup {r}
    /\ UNCHANGED <<config, source, pc, run_no, status, fetched, yielded, start_value,
                   last_value, tables, query_rows, printed, exc, history>>

\* requests.get returns: the generator holds a response it has not checked.
Respond(r, code) ==
    /\ pc = "run"
    /\ gen[r] = "waiting"
    /\ inflight' = inflight \ {r}
    /\ status' = [status EXCEPT ![r] = code]
    /\ gen' = [gen EXCEPT ![r] = "responded"]
    /\ UNCHANGED <<config, source, pc, run_no, fetched, yielded, start_value,
                   last_value, tables, query_rows, printed, exc, history>>

\* A failed run that also loses the stored incremental state.
RaiseLosingState(r) ==
    /\ pc = "run"
    /\ gen[r] = "responded"
    /\ RaisesForStatus(status[r])
    /\ status' = NoStatus
    /\ gen' = NoRun
    /\ fetched' = Nothing
    /\ yielded' = Nothing
    /\ pc' = Handler(script)
    /\ exc' = "HTTPError"
    /\ prev_failed' = (r = "posts_incremental")
    /\ last_value' = initial_value
    /\ UNCHANGED <<config, source, run_no, inflight, start_value, tables,
                   query_rows, printed, source_changed, same_as_prev, resume_mark,
                   resume_table, dropped_rows>>

\* response.raise_for_status() raises: the statement comes before the loop
\* that yields, and the exception leaves pipeline.run, taking the run's
\* generators and the rows extracted so far with it.
Raise(r) ==
    /\ pc = "run"
    /\ gen[r] = "responded"
    /\ RaisesForStatus(status[r])
    /\ status' = NoStatus
    /\ gen' = NoRun
    /\ fetched' = Nothing
    /\ yielded' = Nothing
    /\ pc' = Handler(script)
    /\ exc' = "HTTPError"
    /\ prev_failed' = (r = "posts_incremental")
    /\ UNCHANGED <<config, source, run_no, inflight, start_value, last_value, tables,
                   query_rows, printed, source_changed, same_as_prev, resume_mark,
                   resume_table, dropped_rows>>

\* response.raise_for_status() passes: the generator parses the JSON, selects
\* its records and yields one row for each, to its end.
YieldRows(r, body) ==
    /\ pc = "run"
    /\ gen[r] = "responded"
    /\ ~RaisesForStatus(status[r])
    /\ status' = [status EXCEPT ![r] = 0]
    /\ fetched' = [fetched EXCEPT ![r] = body]
    /\ yielded' = [yielded EXCEPT ![r] = Yields(r, body, last_value)]
    /\ gen' = [gen EXCEPT ![r] = "exhausted"]
    /\ IF r = "posts_incremental"
       THEN /\ same_as_prev' = ~source_changed
            /\ source_changed' = FALSE
       ELSE UNCHANGED <<same_as_prev, source_changed>>
    /\ UNCHANGED <<config, source, pc, run_no, inflight, start_value, last_value,
                   tables, query_rows, printed, exc, resume_mark, resume_table,
                   prev_failed, dropped_rows>>

\* Extraction is complete: the rows are written under each resource's write
\* disposition and the incremental state is stored with them.
Load ==
    /\ pc = "run"
    /\ Extracted
    /\ \E new \in [Resources(script) ->
                     UNION {Written(WriteDisposition(r), tables[r], yielded[r]) :
                              r \in Resources(script)}] :
          /\ \A r \in Resources(script) :
                new[r] \in Written(WriteDisposition(r), tables[r], yielded[r])
          /\ tables' = [t \in TableNames |->
                          IF t \in Resources(script) THEN new[t] ELSE tables[t]]
    /\ last_value' = IF "posts_incremental" \in Resources(script)
                     THEN Advance(last_value, yielded["posts_incremental"])
                     ELSE last_value
    /\ resume_mark' = last_value'
    /\ resume_table' = tables'["posts_incremental"]
    /\ prev_failed' = FALSE
    /\ dropped_rows' = (\E t \in TableNames : \E x \in DOMAIN tables[t] :
                            x \notin DOMAIN tables'[t])
    /\ pc' = "loaded"
    /\ UNCHANGED <<config, source, run_no, gen, inflight, status, fetched, yielded,
                   start_value, query_rows, printed, exc, source_changed,
                   same_as_prev>>

\* The warehouse rejects the load (credentials, API not enabled, role): the
\* exception leaves pipeline.run.
LoadFails ==
    /\ pc = "run"
    /\ Extracted
    /\ script = "bigquery"
    /\ gen' = NoRun
    /\ status' = NoStatus
    /\ fetched' = Nothing
    /\ yielded' = Nothing
    /\ pc' = Handler(script)
    /\ exc' = "LoadError"
    /\ UNCHANGED <<config, source, run_no, inflight, start_value, last_value, tables,
                   query_rows, printed, history>>

\* 01_simple_pipeline.py: the sample and count queries on users and posts.
QuerySimple ==
    /\ pc = "loaded"
    /\ script = "simple"
    /\ query_rows' = <<[user_count |-> BagCardinality(tables["users"]),
                        post_count |-> BagCardinality(tables["posts"])]>>
    /\ pc' = "queried"
    /\ UNCHANGED <<config, source, run_no, gen, inflight, status, fetched, yielded,
                   start_value, last_value, tables, printed, exc, history>>

\* 02_incremental_load.py: COUNT and MAX(post_id) after RUN 1 and after RUN 2.
QueryIncremental ==
    /\ pc = "loaded"
    /\ script = "incremental"
    /\ query_rows' = Append(query_rows, CountAndMax(tables["posts_incremental"]))
    /\ pc' = "queried"
    /\ UNCHANGED <<config, source, run_no, gen, inflight, status, fetched, yielded,
                   start_value, last_value, tables, printed, exc, history>>

\* demonstrate_incremental_loading: RUN 2 follows the first query.
SecondRun ==
    /\ pc = "queried"
    /\ script = "incremental"
    /\ run_no = 1
    /\ BeginRun
    /\ UNCHANGED printed

\* The rest of main() is printing: the script ends.
Finish ==
    /\ \/ pc = "queried" /\ (script = "simple" \/ run_no = 2)
       \/ pc = "loaded" /\ script = "users_with_timestamp"
    /\ pc' = "done"
    /\ UNCHANGED <<config, source, run_no, gen, inflight, status, fetched, yielded,
                   start_value, last_value, tables, query_rows, printed, exc, history>>

\* bigquery main(): run_bigquery_pipeline returned, the try block goes on.
PrintSuccess ==
    /\ pc = "loaded"
    /\ script = "bigquery"
    /\ printed' = printed \cup {"SUCCESS"}
    /\ pc' = "done"
    /\ UNCHANGED <<config, source, run_no, gen, inflight, status, fetched, yielded,
                   start_value, last_value, tables, query_rows, exc, history>>

\* bigquery main(): except Exception as e.
PrintError ==
    /\ pc = "except"
    /\ printed' = printed \cup {"Error running pipeline", "Troubleshooting"}
    /\ pc' = "done"
    /\ UNCHANGED <<config, source, run_no, gen, inflight, status, fetched, yielded,
                   start_value, last_value, tables, query_rows, exc, history>>

\* The script is started again: a new process, the same disk.
Invoke ==
    /\ pc \in {"done", "crashed"}
    /\ pc' = "import"
    /\ run_no' = 0
    /\ gen' = NoRun
    /\ inflight' = {}
    /\ status' = NoStatus
    /\ fetched' = Nothing
    /\ yielded' = Nothing
    /\ start_value' = last_value
    /\ query_rows' = <<>>
    /\ printed' = {}
    /\ exc' = "none"
    /\ same_as_prev' = FALSE
    /\ dropped_rows' = FALSE
    /\ UNCHANGED <<config, source, last_value, tables, source_changed,
                   resume_mark, resume_table, prev_failed>>

Next ==
    \/ ImportDlt
    \/ Main
    \/ MainBigQuery
    \/ \E rec \in PostRecords : SourceAppend(rec)
    \/ \E i \in 1..MaxPosts : SourceRemove(i)
    \/ \E r \in TableNames : Request(r)
    \/ \E r \in TableNames : \E code \in Statuses : Respond(r, code)
    \/ \E r \in TableNames : Raise(r)
    \/ \E r \in TableNames : \E body \in Answers(r) : YieldRows(r, body)
    \/ Load
    \/ LoadFails
    \/ QuerySimple
    \/ QueryIncremental
    \/ SecondRun
    \/ Finish
    \/ PrintSuccess
    \/ PrintError
    \/ Invoke

Spec == Init /\ [][Next]_vars

\* ================================================================ claims
PI == "posts_incremental"

\* The rows load_posts_incremental makes of the posts it fetched whose id is
\* above mark.
RowsAbove(mark) ==
    {[post_id |-> p.id, body |-> p.body] : p \in {q \in Range(fetched[PI]) : q.id > mark}}

\* C1: in every run of load_posts_incremental the set of records yielded is
\* exactly the set of fetched posts whose id is strictly greater than the
\* high-water mark stored when the run began: none at or below the mark is
\* yielded, none above it is left out.
C1_YieldsExactlyPostsAboveMark ==
    gen[PI] = "exhausted" => Range(yielded[PI]) = RowsAbove(start_value)

\* C1 witness: a run that began with a mark above 0 has fetched posts on both
\* sides of the mark and yielded some but not all of them.
C1_Witness ==
    /\ gen[PI] = "exhausted"
    /\ start_value > 0
    /\ yielded[PI] # <<>>
    /\ Len(yielded[PI]) < Len(fetched[PI])

\* C2: after every successfully completed run of the incremental pipeline the
\* stored mark is the maximum of the mark before the run and of the ids of
\* the posts the run processed; before the first run it is 0.
C2_MarkIsMaxSeen ==
    script = "incremental" =>
        /\ pc \in {"loaded", "queried", "done"} =>
              last_value = Max({start_value} \cup {p.id : p \in Range(fetched[PI])})
        /\ tables[PI] = EmptyBag => last_value = 0

\* C2 witness: a completed run that moved a mark that was already above 0.
C2_Witness ==
    /\ script = "incremental"
    /\ pc = "loaded"
    /\ start_value > 0
    /\ last_value > start_value

\* C3: when the incremental pipeline runs twice in a row against an unchanged
\* source, the second run yields no post, and the row count and the highest
\* post_id of posts_incremental after the second run are those after the
\* first.
C3_SecondRunLoadsNothing ==
    (script = "incremental" /\ same_as_prev) =>
        /\ yielded[PI] = <<>>
        /\ (pc = "queried" /\ run_no = 2) => query_rows[2] = query_rows[1]

\* C3 witness: RUN 2 of the demonstration has been queried, the source was the
\* one RUN 1 saw, and RUN 1 had loaded rows.
C3_Witness ==
    /\ script = "incremental"
    /\ same_as_prev
    /\ pc = "queried"
    /\ run_no = 2
    /\ query_rows[1].count > 0

\* The status check raises for this code.
ErrorStatus(code) == 400 <= code /\ code < 600

\* A step taken by a generator that holds a response of the given kind is a
\* failure of the run: nothing is yielded, HTTPError leaves pipeline.run, and
\* no table is written.
FailsBeforeYield(r) ==
    /\ yielded' = Nothing
    /\ exc' = "HTTPError"
    /\ pc' \in {"crashed", "except"}
    /\ tables' = tables

\* C4 (as the code has it): in every resource function a response whose
\* status is 4xx or 5xx makes raise_for_status() raise before any row is
\* yielded, so no row of that response reaches the destination.  Responses
\* of the other classes (1xx, 3xx) pass the check like a 2xx one.
C4_ErrorStatusRaisesBeforeYield ==
    [][\A r \in TableNames :
          (gen[r] = "responded" /\ ErrorStatus(status[r])) => FailsBeforeYield(r)]_vars

\* C4 as stated: every non-2xx response raises before any row is yielded.
C4_NonSuccessRaisesBeforeYield ==
    [][\A r \in TableNames :
          (gen[r] = "responded" /\ ~(200 <= status[r] /\ status[r] < 300))
              => FailsBeforeYield(r)]_vars

\* C4 witness: 01_simple_pipeline.py has crashed with HTTPError on the posts
\* request after its users generator had run, with the tables of an earlier
\* run still in place.
C4_Witness ==
    /\ script = "simple"
    /\ pc = "crashed"
    /\ exc = "HTTPError"
    /\ yielded = Nothing
    /\ tables["users"] # EmptyBag
    /\ tables["posts"] # EmptyBag

\* C5: in bigquery_pipeline.py's main() an exception raised by the pipeline
\* run is caught: the error and the troubleshooting list are printed, the
\* success message is not, and main() returns normally; whenever the pipeline
\* run was reached exactly one of the two messages is printed.
C5_MainCatchesAndReports ==
    script = "bigquery" =>
        /\ exc \in {"HTTPError", "LoadError"} => pc \in {"except", "done"}
        /\ (pc = "done" /\ exc # "none") =>
              /\ {"Error running pipeline", "Troubleshooting"} \subseteq printed
              /\ "SUCCESS" \notin printed
        /\ (pc = "done" /\ run_no >= 1) =>
              ("SUCCESS" \in printed) # ("Error running pipeline" \in printed)

\* C5 witness: main() has returned after the warehouse rejected the load, the
\* troubleshooting list printed.
C5_Witness ==
    /\ script = "bigquery"
    /\ pc = "done"
    /\ exc = "LoadError"
    /\ "Troubleshooting" \in printed
    /\ "SUCCESS" \notin printed

\* C6: a table loaded under merge holds at most one row for each value of its
\* primary key: post_id in posts_incremental, user_id in
\* users_with_timestamp.
C6_OneRowPerPrimaryKey ==
    \A t \in {"posts_incremental", "users_with_timestamp"} :
        \A x, y \in DOMAIN tables[t] :
            /\ tables[t][x] = 1
            /\ PrimaryKey(x) = PrimaryKey(y) => x = y

\* C6 witness: a run that yielded two rows with one post_id has been loaded.
C6_Witness ==
    /\ pc = "loaded"
    /\ Len(yielded[PI]) = 2
    /\ yielded[PI][1].post_id = yielded[PI][2].post_id
    /\ yielded[PI][1] # yielded[PI][2]
    /\ DOMAIN tables[PI] # {}

\* C7 as stated: after a run of the incremental pipeline every row of
\* posts_incremental whose post has just been fetched carries that post's
\* content, so a post that changed at the source since it was loaded has had
\* its row updated.
C7_ChangedPostIsUpdated ==
    (script = "incremental" /\ pc = "loaded") =>
        \A p \in Range(fetched[PI]) :
            (\A q \in Range(fetched[PI]) : q.id = p.id => q = p) =>
                \A x \in DOMAIN tables[PI] : x.post_id = p.id => x.body = p.body

\* C8: after every successful run of a pipeline whose resources replace, the
\* users table and the posts table hold exactly the rows yielded in that run.
C8_ReplaceHoldsThisRunsRows ==
    (script \in {"simple", "bigquery"} /\ pc \in {"loaded", "queried"}) =>
        \A r \in {"users", "posts"} : tables[r] = SeqToBag(yielded[r])

\* C8 witness: a run of 01_simple_pipeline.py has loaded, and a row an
\* earlier run had left is gone.
C8_Witness ==
    /\ script = "simple"
    /\ pc = "loaded"
    /\ dropped_rows
    /\ tables["users"] # EmptyBag

\* C9: a run of the incremental pipeline that fails leaves the stored mark and
\* posts_incremental as the last successful run left them, and the next run
\* filters by that mark.
C9_FailedRunKeepsMarkAndTable ==
    script = "incremental" =>
        /\ (pc = "crashed" /\ exc = "HTTPError") =>
              /\ last_value = resume_mark
              /\ tables[PI] = resume_table
        /\ (prev_failed /\ gen[PI] = "exhausted") =>
              Range(yielded[PI]) = RowsAbove(resume_mark)

\* C9 witness: the run after a failed one has yielded posts above a mark that
\* a run before the failure had set.
C9_Witness ==
    /\ script = "incremental"
    /\ prev_failed
    /\ gen[PI] = "exhausted"
    /\ resume_mark > 0
    /\ yielded[PI] # <<>>
    /\ Len(yielded[PI]) < Len(fetched[PI])

\* C10: a script is one line of execution: at most one HTTP request is in
\* flight, the tables are written only when every HTTP call of the run has
\* returned and every generator is done, and a query is made after the load
\* of its run and sees what that load wrote.
C10_OneThingAtATime ==
    /\ Cardinality(inflight) <= 1
    /\ pc \in {"loaded", "queried"} =>
          /\ inflight = {}
          /\ \A r \in Resources(script) : gen[r] = "exhausted"
    /\ Len(query_rows) <= run_no
    /\ pc \in {"run", "loaded"} => Len(query_rows) < run_no
    /\ (pc = "queried" /\ script = "simple") =>
          /\ query_rows[1].user_count = Len(yielded["users"])
          /\ query_rows[1].post_count = Len(yielded["posts"])
    /\ (pc = "queried" /\ script = "incremental") =>
          query_rows[run_no] = CountAndMax(tables[PI])

\* C10 witness: 01_simple_pipeline.py has queried the two tables it loaded
\* from two requests.
C10_Witness ==
    /\ script = "simple"
    /\ pc = "queried"
    /\ query_rows[1].user_count > 0
    /\ query_rows[1].post_count > 1

\* C11: in bigquery_pipeline.py's main(), when check_bigquery_setup() has
\* returned False, main() returns at once: no pipeline run is begun, no HTTP
\* request is issued, no table is written, and neither the success nor the
\* error message is printed.
C11_FailedSetupReturnsAtOnce ==
    (script = "bigquery" /\ "SETUP REQUIRED" \in printed) =>
        /\ pc = "done"
        /\ "Please complete setup steps" \in printed
        /\ run_no = 0
        /\ gen = NoRun
        /\ inflight = {}
        /\ status = NoStatus
        /\ tables = [t \in TableNames |-> EmptyBag]
        /\ "SUCCESS" \notin printed
        /\ "Error running pipeline" \notin printed

\* C11 witness: main() has returned after a setup check that found the
\* credentials file but the placeholder project id.
C11_Witness ==
    /\ script = "bigquery"
    /\ pc = "done"
    /\ credentials_exist
    /\ BIGQUERY_PROJECT_ID = "your-project-id"
    /\ "SETUP REQUIRED" \in printed
    /\ "Please complete setup steps" \in printed

\* C12: check_bigquery_setup() returns True exactly when the credentials file
\* exists and the project id is not the placeholder 'your-project-id'; the
\* dataset name has no part in the result, and each of the two checks is
\* made and reported whatever the other gave.
C12_SetupCheckResult ==
    (script = "bigquery" /\ "BIGQUERY SETUP CHECK" \in printed) =>
        /\ ("SETUP REQUIRED" \notin printed)
              <=> (credentials_exist /\ BIGQUERY_PROJECT_ID # "your-project-id")
        /\ ("Please complete setup steps" \notin printed)
              <=> (credentials_exist /\ BIGQUERY_PROJECT_ID # "your-project-id")
        /\ ("Found" \in printed) <=> credentials_exist
        /\ ("Not found" \in printed) <=> ~credentials_exist
        /\ ("Project ID" \in printed) <=> (BIGQUERY_PROJECT_ID # "your-project-id")
        /\ ("Project ID not configured" \in printed)
              <=> (BIGQUERY_PROJECT_ID = "your-project-id")

\* C12 witness: the check has failed on a missing credentials file and still
\* reported a configured project id, with a dataset name that is not the
\* default.
C12_Witness ==
    /\ script = "bigquery"
    /\ ~credentials_exist
    /\ BIGQUERY_PROJECT_ID # "your-project-id"
    /\ BIGQUERY_DATASET # "api_ingestion"
    /\ "Not found" \in printed
    /\ "Project ID" \in printed
    /\ "SETUP REQUIRED" \in printed

\* C13: load_users, load_posts and load_users_with_timestamp yield exactly
\* one flat row for each record of the fetched list, in the list's order, the
\* record's id as user_id or post_id and its content with it: no record is
\* dropped, repeated or moved.
C13_OneRowPerRecordInOrder ==
    \A r \in {"users", "posts", "users_with_timestamp"} :
        gen[r] = "exhausted" =>
            /\ Len(yielded[r]) = Len(fetched[r])
            /\ \A i \in DOMAIN fetched[r] :
                  /\ PrimaryKey(yielded[r][i]) = fetched[r][i].id
                  /\ r = "posts" =>
                        /\ DOMAIN yielded[r][i] = {"post_id", "body"}
                        /\ yielded[r][i].body = fetched[r][i].body
                  /\ r # "posts" =>
                        /\ DOMAIN yielded[r][i] = {"user_id", "name"}
                        /\ yielded[r][i].name = fetched[r][i].name

\* C13 witness: load_posts has run through a list of two posts whose ids come
\* in descending order, and load_users through a list of its own.
C13_Witness ==
    /\ gen["posts"] = "exhausted"
    /\ gen["users"] = "exhausted"
    /\ Len(fetched["posts"]) = 2
    /\ fetched["posts"][1].id > fetched["posts"][2].id
    /\ Len(yielded["posts"]) = 2
    /\ yielded["users"] # <<>>

\* C14 as stated: a script started where dlt is not installed prints the
\* "DLT is not installed" instructions and ends normally, without an
\* unhandled ImportError and without running main().
C14_MissingDltIsReported ==
    (~dlt_installed /\ pc # "import") =>
        /\ pc = "done"
        /\ "DLT is not installed" \in printed
        /\ run_no = 0

\* C15: over any sequence of runs of the incremental pipeline, successful or
\* failed, whatever the API returns, the stored mark never decreases.
C15_MarkNeverDecreases ==
    [][last_value' >= last_value]_vars

\* C15 witness: a run has loaded after fetching only posts below a mark that
\* an earlier run had set, and the mark is where it was.
C15_Witness ==
    /\ script = "incremental"
    /\ pc = "loaded"
    /\ start_value > 0
    /\ fetched[PI] # <<>>
    /\ \A p \in Range(fetched[PI]) : p.id < start_value
    /\ last_value = start_value

====
